---- MODULE Spec2Model ----
(***************************************************************************)
(* Model of the Solvium captcha client (src/src/solvium/client.py):        *)
(* task submission (_new_task_wrapper over _api_call), the status polling  *)
(* loop (_wait_for_task_completion) and the facade operations that compose *)
(* them under asyncio.wait_for(timeout=self.timeout).                      *)
(*                                                                         *)
(* Time is counted in whole seconds since asyncio.wait_for was entered.    *)
(* A Python exception leaving a function is an outcome of kind "raise".    *)
(***************************************************************************)
EXTENDS Integers, Sequences, FiniteSets, TLC

\* ------------------------------------------------------------------ bounds

\* Largest solve timeout (seconds) a client is constructed with.
MaxTimeout == 5
\* Largest time (seconds) the service takes to answer one status request.
MaxLatency == 1
\* Largest solve timeout of the runs checked for termination.
MaxFairTimeout == 3
\* Largest solve timeout of the runs with two concurrent operations.
MaxConcTimeout == 2

\* --------------------------------------------------------- program constants

\* random.randint(1, 3): both ends inclusive.
JitterMin == 1
JitterMax == 3
\* timeout=30 of the Turnstile creation request.
TurnstileCreateTimeout == 30

TASK_CREATED_MSG == "Task created"

\* class TaskStatus(StrEnum): the five member values.
TaskStatus == {"pending", "running", "completed", "rejected", "no_status"}

\* The operations that may run on one client instance.
Ops == {1, 2}

\* The five facade operations.
Kinds == {"turnstile", "noname", "cf_clearance", "vercel", "recaptcha_v3"}

\* ------------------------------------------------------------- JSON values

\* A JSON value as Python sees it after response.json(): t is its type.
JStr(s) == [t |-> "str", v |-> s]
\* JSON null, which is Python's None.
JNull == [t |-> "null", v |-> ""]
JNum(s) == [t |-> "num", v |-> s]
\* Not a JSON value: the key is absent from the object.
Missing == [t |-> "missing", v |-> ""]

\* dict.get(key): None when the key is absent.
Get(x) == IF x = Missing THEN JNull ELSE x
\* dict.get(key, default).
GetD(x, default) == IF x = Missing THEN default ELSE x

\* The `result` member of a status body: absent, null, a string, or an object
\* with optional members solution and error.
NoResult == [shape |-> "missing", solution |-> Missing, error |-> Missing]
NullResult == [shape |-> "null", solution |-> Missing, error |-> Missing]
StrResult == [shape |-> "str", solution |-> Missing, error |-> Missing]
ObjResult(sol, err) == [shape |-> "object", solution |-> sol, error |-> err]
\* The default {} of response.get("result", {}).
EmptyDict == ObjResult(Missing, Missing)
\* response.get("result", {}).
GetResult(response) ==
    IF response.result.shape = "missing" THEN EmptyDict ELSE response.result

\* A parsed response body: a JSON object with the members the client reads,
\* or a JSON array, or JSON null.
Body(shape, message, task_id, status, result) ==
    [shape |-> shape, message |-> message, task_id |-> task_id,
     status |-> status, result |-> result]
NullBody == Body("null", Missing, Missing, Missing, NoResult)
ArrayBody == Body("array", Missing, Missing, Missing, NoResult)
CreateBody(message, task_id) == Body("object", message, task_id, Missing, NoResult)
StatusBody(status, result) == Body("object", Missing, Missing, status, result)

\* Python's None as the value of `response`.
None == NullBody

\* What awaiting the request coroutine and calling response.json() can do.
TransportKinds == {"ok", "connect_error", "proxy_error", "other_exception", "bad_json"}
Transport(kind, body) == [kind |-> kind, body |-> body]
TransportFailures == {Transport(k, NullBody) : k \in TransportKinds \ {"ok"}}

\* ------------------------------------------------------- service behaviours

\* Task ids the service may assign (the empty string included).
TaskIdValues == {JStr(""), JStr("task-A"), JStr("task-B")}
MessageValues == {Missing, JNull, JStr(TASK_CREATED_MSG), JStr("Invalid API key")}
TaskIdFieldValues == {Missing, JNull, JNum("0")} \cup TaskIdValues

\* Every outcome of the creation call.
CreateOutcomes ==
    TransportFailures
    \cup {Transport("ok", NullBody), Transport("ok", ArrayBody)}
    \cup {Transport("ok", CreateBody(m, i)) : m \in MessageValues, i \in TaskIdFieldValues}

SolutionValues == {Missing, JNull, JStr("abc123"), JNum("42")}
ErrorValues == {Missing, JStr("proxy banned")}
ResultValues ==
    {NoResult, NullResult, StrResult}
    \cup {ObjResult(s, Missing) : s \in SolutionValues}
    \cup {ObjResult(Missing, e) : e \in ErrorValues}

NonTerminalStatusValues ==
    {Missing, JStr("pending"), JStr("running"), JStr("no_status")}
UnknownStatusValues == {JNull, JStr("failed")}

\* Every outcome of one status call.
PollOutcomes ==
    TransportFailures
    \cup {Transport("ok", NullBody), Transport("ok", ArrayBody)}
    \cup {Transport("ok", StatusBody(s, NoResult)) :
            s \in NonTerminalStatusValues \cup UnknownStatusValues}
    \cup {Transport("ok", StatusBody(JStr(s), r)) :
            s \in {"completed", "rejected"}, r \in ResultValues}

\* ------------------------------------------------------ function outcomes

Ret(val) == [kind |-> "return", val |-> val, exc |-> ""]
Raise(exc) == [kind |-> "raise", val |-> JNull, exc |-> exc]
\* One iteration of the polling loop fell through to the sleep.
Continue == [kind |-> "continue", val |-> JNull, exc |-> ""]
\* The operation has not ended.
Running == [kind |-> "running", val |-> JNull, exc |-> ""]
\* The coroutine was cancelled before it ended.
Cancelled == [kind |-> "cancelled", val |-> JNull, exc |-> ""]

\* ------------------------------------------------------------- the client

\* Solvium._api_call: the parsed body, or None when the call or the parse
\* raised (every Exception is caught and logged).
api_call(transport) ==
    IF transport.kind = "ok" THEN transport.body ELSE None

\* Faulty variant of _new_task_wrapper: `if task_id:` in place of
\* `if task_id is not None:`.
new_task_wrapper_truthy(response, verbose) ==
    IF response = None THEN Ret(JNull)
    ELSE IF response.shape # "object" THEN Raise("AttributeError")
    ELSE LET message == Get(response.message) IN
         IF message = JNull THEN Ret(JNull)
         ELSE IF message = JStr(TASK_CREATED_MSG)
              THEN LET task_id == Get(response.task_id) IN
                   IF task_id \notin {JNull, JStr(""), JNum("0")}
                   THEN Ret(task_id) ELSE Ret(JNull)
              ELSE Ret(JNull)

\* Faulty variant of _new_task_wrapper: the message is not compared with
\* TASK_CREATED_MSG.
new_task_wrapper_any_message(response, verbose) ==
    IF response = None THEN Ret(JNull)
    ELSE IF response.shape # "object" THEN Raise("AttributeError")
    ELSE LET message == Get(response.message) IN
         IF message = JNull THEN Ret(JNull)
         ELSE LET task_id == Get(response.task_id) IN
              IF task_id # JNull THEN Ret(task_id) ELSE Ret(JNull)

\* Solvium._new_task_wrapper after _api_call returned `response`.
new_task_wrapper(response, verbose) ==
    IF response = None THEN Ret(JNull)
    ELSE IF response.shape # "object" THEN Raise("AttributeError")
    ELSE LET message == Get(response.message) IN
         IF message = JNull THEN Ret(JNull)
         ELSE IF message = JStr(TASK_CREATED_MSG)
              THEN LET task_id == Get(response.task_id) IN
                   IF task_id # JNull THEN Ret(task_id) ELSE Ret(JNull)
              ELSE Ret(JNull)

\* len(x) is defined for x.
HasLen(x) == x.t = "str"

\* Faulty variant: a failed status call ends the loop with None.
on_no_response_gives_up == [kind |-> "return", val |-> JNull, exc |-> ""]

\* The loop's round when _api_call returned None: nothing is matched and the
\* loop goes on to the sleep.
on_no_response == Continue

\* Faulty variant: a pending or running task ends the loop with None.
on_waiting_gives_up == [kind |-> "return", val |-> JNull, exc |-> ""]

\* case TaskStatus.PENDING | TaskStatus.RUNNING: logs when verbose, then
\* falls out of the match to the sleep.
on_waiting == Continue

\* Faulty variant of the COMPLETED case: result.get("solution") without the
\* "NO_SOLUTION" default.
on_completed_no_sentinel(response, verbose) ==
    LET result == GetResult(response) IN
    IF result.shape # "object" THEN Raise("AttributeError")
    ELSE LET solution == Get(result.solution) IN
         IF verbose /\ ~HasLen(solution) THEN Raise("TypeError")
         ELSE Ret(solution)

\* case TaskStatus.COMPLETED.
on_completed(response, verbose) ==
    LET result == GetResult(response) IN
    IF result.shape # "object" THEN Raise("AttributeError")
    ELSE LET solution == GetD(result.solution, JStr("NO_SOLUTION")) IN
         IF verbose /\ ~HasLen(solution) THEN Raise("TypeError")
         ELSE Ret(solution)

\* Faulty variant of the REJECTED case: `return error`.
on_rejected_returns_error(response) ==
    LET result == GetResult(response) IN
    IF result.shape # "object" THEN Raise("AttributeError")
    ELSE Ret(GetD(result.error, JStr("NO_ERROR_RETURNED")))

\* case TaskStatus.REJECTED.
on_rejected(response) ==
    LET result == GetResult(response) IN
    IF result.shape # "object" THEN Raise("AttributeError")
    ELSE Ret(JNull)

\* Faulty variant: a missing status is treated like a rejection.
on_no_status_gives_up == [kind |-> "return", val |-> JNull, exc |-> ""]

\* TaskStatus.NO_STATUS (the default of response.get("status", ...)): no case
\* of the match applies, and the loop goes on to the sleep.
on_no_status == Continue

\* One iteration of the loop of Solvium._wait_for_task_completion after
\* _api_call returned `response`: return, raise, or go on to the sleep.
poll_round(response, verbose) ==
    IF response = None THEN on_no_response
    ELSE IF response.shape # "object" THEN Raise("AttributeError")
    ELSE LET status == GetD(response.status, JStr("no_status")) IN
         IF status \notin {JStr(s) : s \in TaskStatus} THEN Raise("ValueError")
         ELSE IF status \in {JStr("pending"), JStr("running")} THEN on_waiting
         ELSE IF status = JStr("completed") THEN on_completed(response, verbose)
         ELSE IF status = JStr("rejected") THEN on_rejected(response)
         ELSE on_no_status

\* Python's `not task_id`.
Falsy(x) == x = JNull \/ x = JStr("") \/ x = JNum("0")

\* The creation request each facade operation's _create_*_task issues.
CreateRequest(kind) ==
    CASE kind = "noname" ->
           [method |-> "GET", path |-> "/task/noname", id |-> JNull, sub_timeout |-> <<>>]
      [] kind = "recaptcha_v3" ->
           [method |-> "GET", path |-> "/task/recaptcha-v3", id |-> JNull, sub_timeout |-> <<>>]
      [] kind = "turnstile" ->
           [method |-> "GET", path |-> "/task/turnstile", id |-> JNull,
            sub_timeout |-> <<TurnstileCreateTimeout>>]
      [] kind = "vercel" ->
           [method |-> "GET", path |-> "/task/vercel", id |-> JNull, sub_timeout |-> <<>>]
      [] kind = "cf_clearance" ->
           [method |-> "POST", path |-> "/task/cf-clearance", id |-> JNull, sub_timeout |-> <<>>]

\* The request of one status poll: GET /task/status/{task_id}.
StatusRequest(task_id) ==
    [method |-> "GET", path |-> "/task/status/", id |-> task_id, sub_timeout |-> <<>>]

NoRequest == [method |-> "", path |-> "", id |-> JNull, sub_timeout |-> <<>>]

\* Faulty variant: random.randint(0, 3).
Jitter_from_zero == 0..JitterMax

\* random.randint(1, 3).
Jitter == JitterMin..JitterMax

\* Faulty variant: asyncio.wait_for without a timeout.
Expired_never(elapsedNow, d, limit) == FALSE

\* asyncio.wait_for: the awaited step ends `d` seconds from now; the timeout
\* callback fires first when that is not before the deadline.
Expired(elapsedNow, d, limit) == elapsedNow + d >= limit

\* Faulty variant of the facade: `if task_id is None:` in place of
\* `if not task_id:`.
facade_after_create_not_none(created) ==
    IF created.kind = "raise" THEN created
    ELSE IF created.val = JNull THEN Ret(JNull)
    ELSE Running

\* The facade operation after `task_id = await self._create_*_task(...)`
\* yielded `created`: the operation's outcome, or Running when it goes on to
\* asyncio.wait_for(self._wait_for_task_completion(task_id), ...).
facade_after_create(created) ==
    IF created.kind = "raise" THEN created
    ELSE IF Falsy(created.val) THEN Ret(JNull)
    ELSE Running

\* asyncio.wait_for when the timeout fires: the inner task is cancelled and
\* TimeoutError is raised to the facade operation, which does not catch it.
wait_for_timeout == Raise("TimeoutError")

\* `return await asyncio.wait_for(...)` when the inner coroutine ends first:
\* its return value or its exception is the facade operation's.
wait_for_result(inner) == inner

\* Faulty variant of a blocking operation: it catches whatever the
\* asynchronous one raises and returns None.
asyncio_run_swallows(result) ==
    IF result.kind = "raise" THEN [kind |-> "return", val |-> JNull, exc |-> ""]
    ELSE result

\* asyncio.run(coroutine) in the *_sync operations, called where no event
\* loop is running: the coroutine is run to completion, and its return value
\* is returned or its exception raised.
asyncio_run(result) == result

\* ---------------------------------------------------------------- state

VARIABLES
    verbose,     \* self.verbose
    timeout,     \* self.timeout, in seconds
    callers,     \* the operations the application invokes on this client
    pc,          \* where each operation is: idle, creating, polling, sleeping, done
    kind,        \* which facade operation it is
    entry,       \* how it was called: "async" (awaited) or "sync" (the *_sync form)
    request,     \* the last request the operation sent to the service
    creates,     \* creation requests sent
    polls,       \* status requests sent
    sleeps,      \* asyncio.sleep calls made by the polling loop
    jitter,      \* the duration of the current (or last) sleep
    elapsed,     \* seconds since asyncio.wait_for was entered
    expired,     \* whether asyncio.wait_for timed out
    lastCreate,  \* what the creation call did
    lastPoll,    \* what the latest answered status call did
    streak,      \* consecutive status calls that failed in the transport
    submitted,   \* what _create_*_task yielded
    completion,  \* what _wait_for_task_completion did
    outcome      \* what the facade operation gave its caller

vars == <<verbose, timeout, callers, pc, kind, entry, request, creates, polls, sleeps,
          jitter, elapsed, expired, lastCreate, lastPoll, streak, submitted,
          completion, outcome>>

config == <<verbose, timeout, callers>>

NoTransport == Transport("none", NullBody)

\* Solvium.__init__: the configuration; no operation has been invoked.
InitClient ==
    /\ verbose \in BOOLEAN
    /\ timeout \in 1..MaxTimeout
    /\ pc = [o \in Ops |-> "idle"]
    /\ kind = [o \in Ops |-> "none"]
    /\ entry = [o \in Ops |-> "none"]
    /\ request = [o \in Ops |-> NoRequest]
    /\ creates = [o \in Ops |-> 0]
    /\ polls = [o \in Ops |-> 0]
    /\ sleeps = [o \in Ops |-> 0]
    /\ jitter = [o \in Ops |-> 0]
    /\ elapsed = [o \in Ops |-> 0]
    /\ expired = [o \in Ops |-> FALSE]
    /\ lastCreate = [o \in Ops |-> NoTransport]
    /\ lastPoll = [o \in Ops |-> NoTransport]
    /\ streak = [o \in Ops |-> 0]
    /\ submitted = [o \in Ops |-> Running]
    /\ completion = [o \in Ops |-> Running]
    /\ outcome = [o \in Ops |-> Running]

\* One operation is invoked on the client.
Init ==
    /\ InitClient
    /\ callers = {1}

\* What the facade operation hands to its caller when the asynchronous
\* operation ended with `result`.
Delivered(o, result) ==
    IF entry[o] = "sync" THEN asyncio_run(result) ELSE result

\* A facade operation is entered: its _create_*_task sends the creation
\* request.
Invoke(o, k, e) ==
    /\ o \in callers
    /\ pc[o] = "idle"
    /\ pc' = [pc EXCEPT ![o] = "creating"]
    /\ kind' = [kind EXCEPT ![o] = k]
    /\ entry' = [entry EXCEPT ![o] = e]
    /\ request' = [request EXCEPT ![o] = CreateRequest(k)]
    /\ creates' = [creates EXCEPT ![o] = @ + 1]
    /\ UNCHANGED <<config, polls, sleeps, jitter, elapsed, expired, lastCreate,
                   lastPoll, streak, submitted, completion, outcome>>

\* The application awaits the asynchronous operation k.
Start(o, k) == Invoke(o, k, "async")

\* The application calls the blocking operation k_sync, which passes its
\* arguments to the asynchronous operation k under asyncio.run.
StartSync(o, k) == Invoke(o, k, "sync")

\* The creation call ends with `transport`: _new_task_wrapper yields the task
\* id or None, and the facade operation returns None or enters
\* asyncio.wait_for, whose inner task sends the first status request.
CreateResponse(o, transport) ==
    /\ pc[o] = "creating"
    /\ LET created == new_task_wrapper(api_call(transport), verbose)
           next == facade_after_create(created)
       IN /\ lastCreate' = [lastCreate EXCEPT ![o] = transport]
          /\ submitted' = [submitted EXCEPT ![o] = created]
          /\ IF next = Running
             THEN /\ pc' = [pc EXCEPT ![o] = "polling"]
                  /\ request' = [request EXCEPT ![o] = StatusRequest(created.val)]
                  /\ polls' = [polls EXCEPT ![o] = @ + 1]
                  /\ UNCHANGED outcome
             ELSE /\ pc' = [pc EXCEPT ![o] = "done"]
                  /\ outcome' = [outcome EXCEPT ![o] = Delivered(o, next)]
                  /\ UNCHANGED <<request, polls>>
    /\ UNCHANGED <<config, kind, entry, creates, sleeps, jitter, elapsed, expired,
                   lastPoll, streak, completion>>

\* Faulty variant: the sleep is indented under `if response is not None:`,
\* so a round without a response goes straight to the next status request.
PollResponse_no_sleep_on_failure(o, transport, d) ==
    /\ pc[o] = "polling"
    /\ ~Expired(elapsed[o], d, timeout)
    /\ elapsed' = [elapsed EXCEPT ![o] = @ + d]
    /\ lastPoll' = [lastPoll EXCEPT ![o] = transport]
    /\ streak' = [streak EXCEPT ![o] = IF transport.kind = "ok" THEN 0 ELSE @ + 1]
    /\ LET round == poll_round(api_call(transport), verbose)
       IN IF round = Continue /\ api_call(transport) = None
          THEN /\ polls' = [polls EXCEPT ![o] = IF @ < 3 THEN @ + 1 ELSE @]
               /\ UNCHANGED <<pc, sleeps, jitter, completion, outcome>>
          ELSE IF round = Continue
          THEN /\ pc' = [pc EXCEPT ![o] = "sleeping"]
               /\ sleeps' = [sleeps EXCEPT ![o] = @ + 1]
               /\ \E j \in Jitter : jitter' = [jitter EXCEPT ![o] = j]
               /\ UNCHANGED <<polls, completion, outcome>>
          ELSE /\ pc' = [pc EXCEPT ![o] = "done"]
               /\ completion' = [completion EXCEPT ![o] = round]
               /\ outcome' = [outcome EXCEPT ![o] = Delivered(o, wait_for_result(round))]
               /\ UNCHANGED <<polls, sleeps, jitter>>
    /\ UNCHANGED <<config, kind, entry, request, creates, expired, lastCreate,
                   submitted>>

\* A status call ends with `transport` after d seconds, before the deadline:
\* the loop returns, raises, or starts a sleep of random.randint(1, 3) seconds.
PollResponse(o, transport, d) ==
    /\ pc[o] = "polling"
    /\ ~Expired(elapsed[o], d, timeout)
    /\ elapsed' = [elapsed EXCEPT ![o] = @ + d]
    /\ lastPoll' = [lastPoll EXCEPT ![o] = transport]
    /\ streak' = [streak EXCEPT ![o] = IF transport.kind = "ok" THEN 0 ELSE @ + 1]
    /\ LET round == poll_round(api_call(transport), verbose)
       IN IF round = Continue
          THEN /\ pc' = [pc EXCEPT ![o] = "sleeping"]
               /\ sleeps' = [sleeps EXCEPT ![o] = @ + 1]
               /\ \E j \in Jitter : jitter' = [jitter EXCEPT ![o] = j]
               /\ UNCHANGED <<completion, outcome>>
          ELSE /\ pc' = [pc EXCEPT ![o] = "done"]
               /\ completion' = [completion EXCEPT ![o] = round]
               /\ outcome' = [outcome EXCEPT ![o] = Delivered(o, wait_for_result(round))]
               /\ UNCHANGED <<sleeps, jitter>>
    /\ UNCHANGED <<config, kind, entry, request, creates, polls, expired, lastCreate,
                   submitted>>

\* Faulty variant: the task id is kept in a field of the client
\* (self.task_id) that every operation's creation call overwrites, so the
\* next status request may carry the id of another operation's task.
SleepDone_shared_task_id(o) ==
    /\ pc[o] = "sleeping"
    /\ ~Expired(elapsed[o], jitter[o], timeout)
    /\ elapsed' = [elapsed EXCEPT ![o] = @ + jitter[o]]
    /\ pc' = [pc EXCEPT ![o] = "polling"]
    /\ \E q \in Ops :
          /\ submitted[q].kind = "return"
          /\ ~Falsy(submitted[q].val)
          /\ request' = [request EXCEPT ![o] = StatusRequest(submitted[q].val)]
    /\ polls' = [polls EXCEPT ![o] = @ + 1]
    /\ UNCHANGED <<config, kind, entry, creates, sleeps, jitter, expired, lastCreate,
                   lastPoll, streak, submitted, completion, outcome>>

\* The sleep ends before the deadline: the loop sends the next status request
\* for the same task_id.
SleepDone(o) ==
    /\ pc[o] = "sleeping"
    /\ ~Expired(elapsed[o], jitter[o], timeout)
    /\ elapsed' = [elapsed EXCEPT ![o] = @ + jitter[o]]
    /\ pc' = [pc EXCEPT ![o] = "polling"]
    /\ request' = [request EXCEPT ![o] = StatusRequest(request[o].id)]
    /\ polls' = [polls EXCEPT ![o] = @ + 1]
    /\ UNCHANGED <<config, kind, entry, creates, sleeps, jitter, expired, lastCreate,
                   lastPoll, streak, submitted, completion, outcome>>

\* Faulty variant: on timeout the client tells the service to drop the task.
TimeoutFires_cancels_remote(o) ==
    /\ \/ /\ pc[o] = "polling"
          /\ \E d \in 0..MaxLatency : Expired(elapsed[o], d, timeout)
       \/ /\ pc[o] = "sleeping"
          /\ Expired(elapsed[o], jitter[o], timeout)
    /\ elapsed' = [elapsed EXCEPT ![o] = timeout]
    /\ expired' = [expired EXCEPT ![o] = TRUE]
    /\ pc' = [pc EXCEPT ![o] = "done"]
    /\ completion' = [completion EXCEPT ![o] = Cancelled]
    /\ outcome' = [outcome EXCEPT ![o] = Delivered(o, wait_for_timeout)]
    /\ request' = [request EXCEPT ![o] =
                      [method |-> "DELETE", path |-> "/task/", id |-> request[o].id,
                       sub_timeout |-> <<>>]]
    /\ UNCHANGED <<config, kind, entry, creates, polls, sleeps, jitter,
                   lastCreate, lastPoll, streak, submitted>>

\* Faulty variant: one deadline shared by the client, which cancels every
\* operation that is polling or sleeping.
TimeoutFires_all(o) ==
    /\ \/ /\ pc[o] = "polling"
          /\ \E d \in 0..MaxLatency : Expired(elapsed[o], d, timeout)
       \/ /\ pc[o] = "sleeping"
          /\ Expired(elapsed[o], jitter[o], timeout)
    /\ LET hit == {q \in Ops : pc[q] \in {"polling", "sleeping"}}
       IN /\ elapsed' = [q \in Ops |-> IF q = o THEN timeout ELSE elapsed[q]]
          /\ expired' = [q \in Ops |-> IF q \in hit THEN TRUE ELSE expired[q]]
          /\ pc' = [q \in Ops |-> IF q \in hit THEN "done" ELSE pc[q]]
          /\ completion' = [q \in Ops |-> IF q \in hit THEN Cancelled ELSE completion[q]]
          /\ outcome' = [q \in Ops |-> IF q \in hit THEN Delivered(q, wait_for_timeout)
                                        ELSE outcome[q]]
    /\ UNCHANGED <<config, kind, entry, request, creates, polls, sleeps, jitter,
                   lastCreate, lastPoll, streak, submitted>>

\* The deadline of asyncio.wait_for passes while the status call or the sleep
\* is pending: the inner task is cancelled and the operation raises.
TimeoutFires(o) ==
    /\ \/ /\ pc[o] = "polling"
          /\ \E d \in 0..MaxLatency : Expired(elapsed[o], d, timeout)
       \/ /\ pc[o] = "sleeping"
          /\ Expired(elapsed[o], jitter[o], timeout)
    /\ elapsed' = [elapsed EXCEPT ![o] = timeout]
    /\ expired' = [expired EXCEPT ![o] = TRUE]
    /\ pc' = [pc EXCEPT ![o] = "done"]
    /\ completion' = [completion EXCEPT ![o] = Cancelled]
    /\ outcome' = [outcome EXCEPT ![o] = Delivered(o, wait_for_timeout)]
    /\ UNCHANGED <<config, kind, entry, request, creates, polls, sleeps, jitter,
                   lastCreate, lastPoll, streak, submitted>>

Next ==
    \E o \in Ops :
        \/ \E k \in Kinds : Start(o, k)
        \/ \E k \in Kinds : StartSync(o, k)
        \/ \E t \in CreateOutcomes : CreateResponse(o, t)
        \/ \E t \in PollOutcomes, d \in 0..MaxLatency : PollResponse(o, t, d)
        \/ SleepDone(o)
        \/ TimeoutFires(o)

Spec == Init /\ [][Next]_vars

\* The event loop runs whatever is ready: a pending request is answered (httpx
\* bounds every call by its own timeout), a sleep ends, a due timer fires.
\* Two operations run concurrently on one client (asyncio.gather of two facade
\* calls); the service's answers are drawn from a smaller set.
InitConc ==
    /\ InitClient
    /\ timeout <= MaxConcTimeout
    /\ callers = Ops

ConcKinds == {"turnstile", "cf_clearance"}

ConcCreateOutcomes ==
    {Transport("connect_error", NullBody),
     Transport("ok", CreateBody(JStr("Invalid API key"), Missing)),
     Transport("ok", CreateBody(JStr(TASK_CREATED_MSG), JStr("task-A"))),
     Transport("ok", CreateBody(JStr(TASK_CREATED_MSG), JStr("task-B")))}

ConcPollOutcomes ==
    {Transport("proxy_error", NullBody),
     Transport("ok", StatusBody(JStr("pending"), NoResult)),
     Transport("ok", StatusBody(JStr("failed"), NoResult)),
     Transport("ok", StatusBody(JStr("completed"), NoResult)),
     Transport("ok", StatusBody(JStr("completed"), ObjResult(JStr("abc123"), Missing))),
     Transport("ok", StatusBody(JStr("rejected"), ObjResult(Missing, JStr("proxy banned"))))}

NextConc ==
    \E o \in Ops :
        \/ \E k \in ConcKinds : Start(o, k)
        \/ \E t \in ConcCreateOutcomes : CreateResponse(o, t)
        \/ \E t \in ConcPollOutcomes, d \in 0..MaxLatency : PollResponse(o, t, d)
        \/ SleepDone(o)
        \/ TimeoutFires(o)

SpecConc == InitConc /\ [][NextConc]_vars

InitFair == Init /\ timeout <= MaxFairTimeout

SpecFair == InitFair /\ [][Next]_vars /\ WF_vars(Next)


\* ------------------------------------------------------------ vocabulary

\* The creation call of operation o has been answered.
CreateAnswered(o) == pc[o] \notin {"idle", "creating"}

\* The creation call was answered with a JSON object.
CreatedObject(o) ==
    /\ CreateAnswered(o)
    /\ lastCreate[o].kind = "ok"
    /\ lastCreate[o].body.shape = "object"

\* The Poller of operation o was started and has ended.
PollerEnded(o) == pc[o] = "done" /\ polls[o] >= 1

\* The Poller ended on the answer of a status call (not by the timeout).
PollerAnswered(o) == PollerEnded(o) /\ ~expired[o]

\* The latest answered status call carried a JSON object whose status is s.
LastStatusIs(o, s) ==
    /\ lastPoll[o].kind = "ok"
    /\ lastPoll[o].body.shape = "object"
    /\ lastPoll[o].body.status = JStr(s)

\* ------------------------------------------------------------------ C1

\* C1: when the creation succeeded and the overall timeout elapses before a
\* terminal status is polled, the facade operation returns None (no error
\* text, no exception).
C1_TimeoutReturnsNone ==
    \A o \in Ops :
        (expired[o] /\ submitted[o].kind = "return" /\ sleeps[o] >= 1)
            => outcome[o] = Ret(JNull)

\* ------------------------------------------------------------------ C2

\* C2: whatever a status poll answers, the facade operation does not raise:
\* an operation ended by a poll's answer ended by returning a value.
C2_NoPollAnswerRaises ==
    \A o \in Ops : PollerAnswered(o) => outcome[o].kind = "return"

\* ------------------------------------------------------------------ C3

\* The result member is absent or an object, and its solution is absent or a
\* string token.
SolutionWellFormed(o) ==
    /\ lastPoll[o].body.result.shape \in {"missing", "object"}
    /\ lastPoll[o].body.result.solution.t \in {"missing", "str"}

\* What C3 says the Poller returns for the latest answer.
ExpectedSolution(o) ==
    LET result == lastPoll[o].body.result IN
    IF result.shape = "missing" \/ result.solution = Missing
    THEN JStr("NO_SOLUTION")
    ELSE result.solution

\* C3: on status "completed" the Poller returns result.solution as received,
\* or the string "NO_SOLUTION" when result or result.solution is absent, and
\* the facade operation returns that same value.
C3_CompletedReturnsSolution ==
    \A o \in Ops :
        (PollerAnswered(o) /\ LastStatusIs(o, "completed") /\ SolutionWellFormed(o))
            => /\ completion[o] = Ret(ExpectedSolution(o))
               /\ outcome[o] = completion[o]
               /\ outcome[o].val # JNull

C3_Witness ==
    \E o \in Ops :
        /\ PollerAnswered(o)
        /\ polls[o] >= 2
        /\ LastStatusIs(o, "completed")
        /\ lastPoll[o].body.result = EmptyDict
        /\ outcome[o] = Ret(JStr("NO_SOLUTION"))

\* ------------------------------------------------------------------ C4

\* C4: on status "rejected" the Poller returns None whether result carries an
\* error, carries none, or is absent; the error text is not in the value.
C4_RejectedReturnsNone ==
    \A o \in Ops :
        (PollerAnswered(o) /\ LastStatusIs(o, "rejected")
           /\ lastPoll[o].body.result.shape \in {"missing", "object"})
            => /\ completion[o] = Ret(JNull)
               /\ outcome[o] = Ret(JNull)

C4_Witness ==
    \E o \in Ops :
        /\ PollerAnswered(o)
        /\ LastStatusIs(o, "rejected")
        /\ lastPoll[o].body.result = ObjResult(Missing, JStr("proxy banned"))
        /\ outcome[o] = Ret(JNull)


\* ------------------------------------------------------------------ C5

\* The creation body has message "Task created" and a non-null task_id.
CreatedWithId(o) ==
    /\ CreatedObject(o)
    /\ lastCreate[o].body.message = JStr(TASK_CREATED_MSG)
    /\ lastCreate[o].body.task_id \notin {Missing, JNull}

\* C5: for each challenge type, a creation body {message: "Task created",
\* task_id: X} with X not null makes the Submitter return exactly X.
C5_SubmitterReturnsTaskId ==
    \A o \in Ops :
        CreatedWithId(o)
            => /\ kind[o] \in Kinds
               /\ submitted[o] = Ret(lastCreate[o].body.task_id)

C5_Witness ==
    \E o \in Ops :
        /\ CreatedWithId(o)
        /\ kind[o] = "cf_clearance"
        /\ request[o].method = "POST"
        /\ submitted[o] = Ret(JStr(""))

\* ------------------------------------------------------------------ C6

\* The creation body's message is absent or is not "Task created", or its
\* task_id is absent or null.
CreatedWithoutId(o) ==
    /\ CreatedObject(o)
    /\ \/ Get(lastCreate[o].body.message) # JStr(TASK_CREATED_MSG)
       \/ Get(lastCreate[o].body.task_id) = JNull

\* C6: such a creation response makes the Submitter return no task id and
\* the facade operation return None at once, without any status request.
C6_NoTaskIdNoPolling ==
    \A o \in Ops :
        CreatedWithoutId(o)
            => /\ submitted[o] = Ret(JNull)
               /\ pc[o] = "done"
               /\ outcome[o] = Ret(JNull)
               /\ polls[o] = 0
               /\ request[o] = CreateRequest(kind[o])

C6_Witness ==
    \E o \in Ops :
        /\ CreatedWithoutId(o)
        /\ lastCreate[o].body.message = JStr("Invalid API key")
        /\ lastCreate[o].body.task_id = JStr("task-A")
        /\ kind[o] = "noname"
        /\ outcome[o] = Ret(JNull)

\* ------------------------------------------------------------------ C7

\* C7: the Submitter never raises: whatever the creation call does (transport
\* failure, unparsable body, a parsed body of any shape), it yields a value,
\* and that value is None unless the body is a well-formed success.
C7_SubmitterNeverRaises ==
    \A o \in Ops :
        CreateAnswered(o)
            => /\ submitted[o].kind = "return"
               /\ (~CreatedWithId(o) => submitted[o].val = JNull)

\* ------------------------------------------------------------------ C8

\* C8 as stated: polling follows whenever the Submitter yields a task id,
\* whatever its value, and is skipped only when it yields none.
C8_AnyTaskIdIsPolled ==
    \A o \in Ops :
        (CreateAnswered(o) /\ submitted[o].kind = "return")
            => (submitted[o].val # JNull <=> polls[o] >= 1)

\* C8 amended: polling follows whenever the Submitter yields a task id that
\* Python treats as true (a non-empty string), for that id and within the
\* overall timeout; when it yields None or a falsy id (the empty string, 0)
\* the operation returns None without polling.
C8_TruthyTaskIdIsPolled ==
    \A o \in Ops :
        (CreateAnswered(o) /\ submitted[o].kind = "return")
            => /\ ~Falsy(submitted[o].val)
                    => /\ polls[o] >= 1
                       /\ request[o] = StatusRequest(submitted[o].val)
                       /\ elapsed[o] <= timeout
               /\ Falsy(submitted[o].val)
                    => /\ polls[o] = 0
                       /\ pc[o] = "done"
                       /\ outcome[o] = Ret(JNull)

C8_Witness ==
    \E o \in Ops :
        /\ submitted[o] = Ret(JStr("task-B"))
        /\ polls[o] >= 2
        /\ request[o] = StatusRequest(JStr("task-B"))

\* The empty task id: yielded by the Submitter, never polled.
C8_EmptyIdWitness ==
    \E o \in Ops :
        /\ submitted[o] = Ret(JStr(""))
        /\ pc[o] = "done"
        /\ polls[o] = 0

\* ------------------------------------------------------------------ C9

\* C9: the Poller returns only on an answer whose status is "completed" or
\* "rejected"; while the latest answer is "pending" or "running" it has not
\* returned, and there it is ended by the overall timeout alone.
C9_ReturnsOnlyOnTerminalStatus ==
    \A o \in Ops :
        /\ completion[o].kind = "return"
              => /\ ~expired[o]
                 /\ LastStatusIs(o, "completed") \/ LastStatusIs(o, "rejected")
        /\ (polls[o] >= 1 /\ (LastStatusIs(o, "pending") \/ LastStatusIs(o, "running")))
              => /\ completion[o].kind \in {"running", "cancelled"}
                 /\ pc[o] = "done" => (expired[o] /\ elapsed[o] = timeout)

C9_Witness ==
    \E o \in Ops :
        /\ LastStatusIs(o, "pending")
        /\ polls[o] >= 3
        /\ pc[o] = "polling"
        /\ completion[o] = Running

\* ------------------------------------------------------------------ C10

\* The latest answered status call failed in the transport or in the parse.
LastPollFailed(o) == lastPoll[o] \in TransportFailures

\* C10: a status call that fails in the transport (or whose body cannot be
\* parsed) neither ends the loop nor raises: the sleep is taken and the next
\* status request is sent; any number of consecutive failures is tolerated,
\* and only the overall timeout ends such a run.
C10_FailedPollIsRetried ==
    \A o \in Ops :
        LastPollFailed(o)
            => /\ streak[o] >= 1
               /\ completion[o].kind \in {"running", "cancelled"}
               /\ outcome[o].kind # "return"
               /\ pc[o] \in {"sleeping", "polling", "done"}
               /\ pc[o] = "sleeping" => (sleeps[o] = polls[o] /\ jitter[o] \in Jitter)
               /\ pc[o] = "polling" => (polls[o] = sleeps[o] + 1 /\ polls[o] >= 2)
               /\ pc[o] = "done" => (expired[o] /\ outcome[o] = wait_for_timeout)

C10_Witness ==
    \E o \in Ops :
        /\ LastPollFailed(o)
        /\ streak[o] >= 3
        /\ pc[o] = "polling"
        /\ polls[o] = streak[o] + 1


\* ------------------------------------------------------------------ C11

\* The latest answered status call carried a JSON object without a status
\* member, or with the value "no_status".
LastStatusAbsent(o) ==
    /\ lastPoll[o].kind = "ok"
    /\ lastPoll[o].body.shape = "object"
    /\ lastPoll[o].body.status \in {Missing, JStr("no_status")}

\* C11: an answer without a status (or with "no_status") is non-terminal
\* like pending and running: the Poller neither returns nor raises, it takes
\* the sleep and sends the next status request; only the timeout ends it.
C11_NoStatusIsNonTerminal ==
    \A o \in Ops :
        LastStatusAbsent(o)
            => /\ completion[o].kind \in {"running", "cancelled"}
               /\ outcome[o].kind # "return"
               /\ pc[o] \in {"sleeping", "polling", "done"}
               /\ pc[o] = "sleeping" => (sleeps[o] = polls[o] /\ jitter[o] \in Jitter)
               /\ pc[o] = "polling" => (polls[o] = sleeps[o] + 1 /\ polls[o] >= 2)
               /\ pc[o] = "done" => (expired[o] /\ outcome[o] = wait_for_timeout)

C11_Witness ==
    \E o \in Ops :
        /\ LastStatusAbsent(o)
        /\ lastPoll[o].body.status = Missing
        /\ pc[o] = "polling"
        /\ polls[o] >= 2


\* ------------------------------------------------------------------ C12

\* C12: every facade operation that was started ends.  The polling loop has
\* no bound of its own, but the operation is over no later than the timeout
\* plus one poll interval after polling started, and an answer of completed
\* or rejected that arrives before the deadline ends it at once, not the
\* timeout.
C12_EveryOperationEnds ==
    /\ [](\A o \in Ops :
            /\ elapsed[o] <= timeout + 3
            /\ (LastStatusIs(o, "completed") \/ LastStatusIs(o, "rejected"))
                  => (pc[o] = "done" /\ ~expired[o] /\ elapsed[o] < timeout))
    /\ \A o \in Ops : (pc[o] # "idle") ~> (pc[o] = "done")

\* An operation that polled up to the deadline without a terminal answer.
C12_Witness ==
    \E o \in Ops :
        /\ pc[o] = "done"
        /\ expired[o]
        /\ polls[o] >= 2
        /\ sleeps[o] = polls[o]
        /\ LastStatusIs(o, "running")
        /\ elapsed[o] = timeout


\* ------------------------------------------------------------------ C13

\* Everything the client holds for operation o.
OpState(o) ==
    <<pc[o], kind[o], entry[o], request[o], creates[o], polls[o], sleeps[o], jitter[o],
      elapsed[o], expired[o], lastCreate[o], lastPoll[o], streak[o],
      submitted[o], completion[o], outcome[o]>>

\* What the service and the clock did to operation o itself.
OwnHistory(o) == <<lastCreate[o], lastPoll[o], expired[o]>>

\* C13: concurrent operations on one client are independent under every
\* interleaving: a step of one operation (an answer, a sleep, its terminal
\* outcome, its timeout) leaves every other operation as it was, an ended
\* operation keeps its result, and two ended operations that saw the same
\* answers for their own tasks have the same result.
C13_OperationsAreIndependent ==
    /\ [][\A o \in Ops :
            /\ OpState(o)' # OpState(o)
                  => \A q \in Ops \ {o} : OpState(q)' = OpState(q)
            /\ pc[o] = "done" => OpState(o)' = OpState(o)]_vars
    /\ [](\A o \in Ops : \A q \in Ops :
            (pc[o] = "done" /\ pc[q] = "done" /\ OwnHistory(o) = OwnHistory(q))
                => outcome[o] = outcome[q])

\* One operation timed out while the other, still polling, later completes.
C13_Witness ==
    /\ pc[1] = "done" /\ expired[1]
    /\ pc[2] = "done" /\ outcome[2] = Ret(JStr("abc123"))
    /\ polls[2] >= 2
    /\ submitted[1] = submitted[2]


\* ------------------------------------------------------------------ C14

\* What the asynchronous operation gives for the answers operation o saw.
AsyncOutcome(o) ==
    IF expired[o] THEN wait_for_timeout
    ELSE IF polls[o] = 0 THEN facade_after_create(submitted[o])
    ELSE wait_for_result(completion[o])

\* C14: a blocking operation runs the asynchronous operation of the same
\* challenge type (one creation request of that type, then the status
\* requests for its task) to completion and hands its caller exactly what
\* the asynchronous operation gives for the same answers: the same value, or
\* the same exception.
C14_SyncMatchesAsync ==
    \A o \in Ops :
        entry[o] = "sync"
            => /\ kind[o] \in Kinds
               /\ creates[o] = 1
               /\ request[o] \in {CreateRequest(kind[o]), StatusRequest(submitted[o].val)}
               /\ pc[o] # "done" => outcome[o] = Running
               /\ pc[o] = "done" => outcome[o] = AsyncOutcome(o)

C14_Witness ==
    \E o \in Ops :
        /\ entry[o] = "sync"
        /\ kind[o] = "recaptcha_v3"
        /\ pc[o] = "done"
        /\ polls[o] >= 2
        /\ outcome[o] = Ret(JStr("abc123"))

\* A blocking operation that ends by raising, as its asynchronous form does.
C14_RaisingWitness ==
    \E o \in Ops :
        /\ entry[o] = "sync"
        /\ pc[o] = "done"
        /\ outcome[o].kind = "raise"


\* ------------------------------------------------------------------ C15

\* C15: every sleep between two polls lasts between 1 and 3 seconds, both
\* included: the duration drawn is in that range, and that is the time that
\* passes from the start of the sleep to the next status request.
C15_SleepWithinBounds ==
    /\ [](\A o \in Ops :
            (pc[o] = "sleeping" \/ sleeps[o] >= 1) => (1 <= jitter[o] /\ jitter[o] <= 3))
    /\ [][\A o \in Ops :
            (pc[o] = "sleeping" /\ pc'[o] = "polling")
                => (1 <= elapsed'[o] - elapsed[o] /\ elapsed'[o] - elapsed[o] <= 3)]_vars

\* A sleep of the longest duration was taken in full and the next poll sent.
C15_Witness ==
    \E o \in Ops :
        /\ pc[o] = "polling"
        /\ sleeps[o] = 1
        /\ polls[o] = 2
        /\ jitter[o] = 3
        /\ elapsed[o] >= 3


\* ------------------------------------------------------------------ C16

\* The requests operation o has sent: how many, and the latest one.
RequestsSent(o) == <<creates[o], polls[o], request[o]>>

\* C16: when the overall timeout expires the pending poll or sleep is
\* abandoned (the Poller is cancelled, the operation is over), and neither
\* at that moment nor later does the operation send a request for the task:
\* no status poll and no cancellation message.
C16_NoRequestAfterTimeout ==
    [][\A o \in Ops :
          /\ (~expired[o] /\ expired'[o])
                => /\ pc[o] \in {"polling", "sleeping"}
                   /\ pc'[o] = "done"
                   /\ completion'[o] = Cancelled
                   /\ RequestsSent(o)' = RequestsSent(o)
          /\ expired[o]
                => /\ pc'[o] = "done"
                   /\ expired'[o]
                   /\ RequestsSent(o)' = RequestsSent(o)]_vars

\* The timeout struck while a status request was in flight.
C16_Witness ==
    \E o \in Ops :
        /\ expired[o]
        /\ pc[o] = "done"
        /\ polls[o] = sleeps[o] + 1
        /\ polls[o] >= 2
        /\ request[o] = StatusRequest(submitted[o].val)


\* ------------------------------------------------------------------ C17

\* C17: within one run of the Poller polls and sleeps alternate strictly.
\* A status request is sent first and then only after a sleep; a sleep is
\* started only on the answer of a status request, one per non-terminal
\* round; once the Poller has ended nothing more is sent or slept.  So a run
\* of k non-terminal rounds and then a terminal one has k sleeps and k + 1
\* polls.
C17_PollsAndSleepsAlternate ==
    /\ [](\A o \in Ops :
            /\ pc[o] = "polling" => polls[o] = sleeps[o] + 1
            /\ pc[o] = "sleeping" => (polls[o] = sleeps[o] /\ polls[o] >= 1)
            /\ (PollerAnswered(o) /\ completion[o].kind = "return")
                  => /\ LastStatusIs(o, "completed") \/ LastStatusIs(o, "rejected")
                     /\ polls[o] = sleeps[o] + 1)
    /\ [][\A o \in Ops :
            /\ polls'[o] # polls[o]
                  => /\ polls'[o] = polls[o] + 1
                     /\ sleeps'[o] = sleeps[o]
                     /\ pc[o] = "sleeping" \/ polls[o] = 0
                     /\ pc'[o] = "polling"
            /\ sleeps'[o] # sleeps[o]
                  => /\ sleeps'[o] = sleeps[o] + 1
                     /\ polls'[o] = polls[o]
                     /\ pc[o] = "polling"
                     /\ pc'[o] = "sleeping"
            /\ (pc[o] = "polling" /\ pc'[o] = "polling") => polls'[o] = polls[o]
            /\ pc[o] = "done" => (polls'[o] = polls[o] /\ sleeps'[o] = sleeps[o])]_vars

\* pending, a failed call, running, then completed: 3 sleeps and 4 polls.
C17_Witness ==
    \E o \in Ops :
        /\ PollerAnswered(o)
        /\ LastStatusIs(o, "completed")
        /\ completion[o] = Ret(JStr("abc123"))
        /\ sleeps[o] = 3
        /\ polls[o] = 4


\* ------------------------------------------------------------------ C18

\* C18: every status request of an operation carries exactly the task id its
\* own creation call returned; from the first status request on, the id, the
\* Submitter's result and the creation answer never change, and each
\* operation sends its creation request exactly once.
C18_PollsTargetOwnTask ==
    /\ [](\A o \in Ops :
            /\ creates[o] = (IF pc[o] = "idle" THEN 0 ELSE 1)
            /\ pc[o] = "creating" => request[o] = CreateRequest(kind[o])
            /\ polls[o] >= 1
                  => /\ CreatedWithId(o)
                     /\ submitted[o] = Ret(lastCreate[o].body.task_id)
                     /\ request[o] = StatusRequest(lastCreate[o].body.task_id))
    /\ [][\A o \in Ops :
            /\ creates'[o] # creates[o] => (pc[o] = "idle" /\ pc'[o] = "creating")
            /\ polls[o] >= 1
                  => /\ request'[o] = request[o]
                     /\ submitted'[o] = submitted[o]
                     /\ lastCreate'[o] = lastCreate[o]
                     /\ creates'[o] = creates[o]]_vars

\* Two operations run together, each on its second status request or later,
\* for different tasks.
C18_Witness ==
    /\ polls[1] >= 2 /\ request[1] = StatusRequest(JStr("task-A"))
    /\ polls[2] >= 2 /\ request[2] = StatusRequest(JStr("task-B"))
    /\ lastCreate[1].body.task_id = JStr("task-A")
    /\ lastCreate[2].body.task_id = JStr("task-B")


\* ------------------------------------------------------------------ C19

\* What a client with the given verbose flag makes of the answers operation
\* o saw: the Submitter's result and the outcome of the latest poll round.
WithVerbose(o, flag) ==
    <<new_task_wrapper(api_call(lastCreate[o]), flag),
      IF polls[o] = 0 \/ lastPoll[o] = NoTransport THEN Running
      ELSE poll_round(api_call(lastPoll[o]), flag)>>

\* C19: the verbose flag affects only logging.  On the creation answer and
\* the poll answers an operation saw, the client with the other value of
\* verbose gets the same Submitter result and the same outcome of every poll
\* round (the same returned value, the same exception, or another round), so
\* both clients end with the same value after the same number of polls.
C19_VerboseOnlyLogs ==
    \A o \in Ops :
        CreateAnswered(o) => WithVerbose(o, TRUE) = WithVerbose(o, FALSE)

====
